---- MODULE Spec2Model ----
(***************************************************************************)
(* Model of dl-utils/console_capture.py: a worker thread (ProcessingThread)*)
(* runs a callable inside a ConsoleCaptureCtx that redirects sys.stdout /  *)
(* sys.stderr into a temporary file; a controlling thread drives it through*)
(* ProcessWrap (process, show, start, async_show, async_stop) and through  *)
(* ProcessingThread.close; a querying thread reads the `data` property; and *)
(* OutputThread objects tail the file.                                     *)
(*                                                                         *)
(* Threads interleave at every access to shared state; code run under the  *)
(* ConsoleCaptureCtx RLock is split at the lock acquire / release.          *)
(* The callable writes whole lines 1, 2, ..., callN to sys.stdout.         *)
(* ThrStatus is modelled as the enumeration its users rely on: CREATED,    *)
(* RUNNING, ENDED, ABORTED, REAPED = range(5), and CLOSING, which is only a *)
(* slot name, as a sixth value different from the other five.              *)
(*                                                                         *)
(* Three more parts share the variables: ProcessWrap.show and              *)
(* ProcessingThread.reprint (ShowSpec); a ConsoleCapture or a never-entered *)
(* ConsoleCaptureCtx whose methods one thread calls directly (SessSpec);   *)
(* and clean_string over strings of four character classes (CleanSpec).    *)
(***************************************************************************)
EXTENDS Integers, Sequences, FiniteSets, TLC

\* ------------------------------------------------------------------ bounds
MaxChunks == 2      \* the callable writes at most this many lines
MaxReaders == 2     \* OutputThread objects one controller creates
MaxReprints == 1    \* direct calls of ProcessingThread.reprint
MaxStarts == 2      \* calls of start() on one capture session
MaxLen == 6         \* length of the strings given to clean_string

\* ------------------------------------------------------------- ThrStatus
CREATED == 0
RUNNING == 1
ENDED == 2
ABORTED == 3
REAPED == 4
CLOSING == 5

VARIABLES
    \* process-wide output targets and the real console
    sys_stdout, sys_stderr, console,
    \* the temporary file
    fileExists, content,
    \* ProcessWrap.tproc : ProcessingThread
    tproc, st, wPc, outcome, ctxSet, tfname, kwVerbose, kwDelete, callN, written,
    \* the worker's ConsoleCaptureCtx
    ctxOn, ctxFname, ctxResult, logOpen, lock,
    \* the controlling thread
    ctlPc, ctlOp, ctlErr, pBlock, pAll,
    \* the thread that reads the data property
    obsPc, dataSt, dataRes,
    \* ProcessWrap.tout and the OutputThread objects
    tout, nReaders, readers,
    \* history: statuses tproc has had, readers stop() was called on, readers
    \* whose stop() has returned
    seen, stopReq, stopped,
    \* the status word ProcessingThread.reprint last put in its header, and
    \* the direct calls of reprint made
    hdr, nReprints,
    \* a capture session used on its own: its class, whether __init__ has set
    \* _on and fname, start() calls made, the last call, the exception it
    \* raised, the last value of data, and how many lines had been written
    \* since start() when reset() was called (-1: not called)
    sKind, sAttrs, sStarts, sOp, sErr, sData, sResetAt,
    \* clean_string: its argument, its result, its result on its result
    cIn, cOut, cTwice, cPc

sysVars == <<sys_stdout, sys_stderr, console>>
fileVars == <<fileExists, content>>
thrVars == <<tproc, st, wPc, outcome, ctxSet, tfname, kwVerbose, kwDelete, callN, written, seen>>
ctxVars == <<ctxOn, ctxFname, ctxResult, logOpen>>
ctlVars == <<ctlPc, ctlOp, ctlErr, pBlock, pAll>>
obsVars == <<obsPc, dataSt, dataRes>>
outVars == <<tout, nReaders, readers, stopReq, stopped>>
sessVars == <<sKind, sAttrs, sStarts, sOp, sErr, sData, sResetAt>>
cleanVars == <<cIn, cOut, cTwice, cPc>>
auxVars == <<hdr, nReprints, sessVars, cleanVars>>
vars == <<sysVars, fileVars, thrVars, ctxVars, lock, ctlVars, obsVars, outVars, auxVars>>

\* ------------------------------------------------------------ values
None == [kind |-> "none", val |-> <<>>]
Text(s) == [kind |-> "text", val |-> s]
Error == [kind |-> "error", val |-> <<>>]
Unset == [kind |-> "unset", val |-> <<>>]

NoReader == [pc |-> "none", st |-> CREATED, all |-> FALSE, pos |-> 0]

\* a thread is alive from start() until its run() has returned or raised
WAlive == wPc \notin {"idle", "dead"}
RAlive(i) == readers[i].pc \notin {"none", "dead"}

\* ------------------------------------------------------------ pure parts
\* variant: the message never reaches the file
LogWrite_Lost(buf, message) == buf

\* OutputDest.write on the log file: append and flush
LogWrite(buf, message) == Append(buf, message)

\* ConsoleCapture.data: the file's content if fname is set, else None
SuperData(fnameSet, exists, buf) ==
    IF fnameSet THEN (IF exists THEN Text(buf) ELSE Error) ELSE None

\* variant: no cached copy, always the file
CtxData_NoCache(result, fnameSet, exists, buf) == SuperData(fnameSet, exists, buf)

\* ConsoleCaptureCtx.data: the cached copy if there is one, else the file
CtxData(result, fnameSet, exists, buf) ==
    IF result.kind # "none" THEN result ELSE SuperData(fnameSet, exists, buf)

\* sys.stdout.write(message) by the thread `src`: the sink writes to the log
\* and echoes to the real console if asked to; the console just prints
StdoutWrite(src, message) ==
    IF sys_stdout = "sink"
    THEN /\ logOpen
         /\ content' = LogWrite(content, message)
         /\ console' = IF kwVerbose THEN Append(console, <<"echo", message>>) ELSE console
         /\ UNCHANGED fileExists
    ELSE /\ console' = Append(console, <<src, message>>)
         /\ UNCHANGED fileVars

\* ------------------------------------------------------------ clean_string
\* characters: an ordinary one, newline, carriage return, backspace
Chars == {"a", "n", "r", "b"}
Strings == UNION {[1..n -> Chars] : n \in 0..MaxLen}

\* what stands for a call that never returns
Diverges == <<"loop">>

\* first position from i on that holds \r or \n, or Len(s) + 1
RECURSIVE RunEnd(_, _)
RunEnd(s, i) ==
    IF i > Len(s) \/ s[i] \in {"r", "n"} THEN i ELSE RunEnd(s, i + 1)

\* variant: the run is dropped whether or not a \r follows it
RECURSIVE CarriageReturns_AnyRun(_, _)
CarriageReturns_AnyRun(s, i) ==
    IF i > Len(s) THEN <<>>
    ELSE IF s[i] \in {"r", "n"} THEN <<s[i]>> \o CarriageReturns_AnyRun(s, i + 1)
    ELSE LET j == RunEnd(s, i) IN
         IF ~(j + 1 <= Len(s) /\ s[j + 1] = "n")
         THEN CarriageReturns_AnyRun(s, j + 1)
         ELSE SubSeq(s, i, j - 1) \o CarriageReturns_AnyRun(s, j)

\* re.sub('[^\r\n]+\r(?!\n)', '', buf) from position i: a maximal run of
\* characters other than \r and \n is dropped, with the \r after it, when that
\* \r is not followed by \n; everything else is kept
RECURSIVE CarriageReturns(_, _)
CarriageReturns(s, i) ==
    IF i > Len(s) THEN <<>>
    ELSE IF s[i] \in {"r", "n"} THEN <<s[i]>> \o CarriageReturns(s, i + 1)
    ELSE LET j == RunEnd(s, i) IN
         IF j <= Len(s) /\ s[j] = "r" /\ ~(j + 1 <= Len(s) /\ s[j + 1] = "n")
         THEN CarriageReturns(s, j + 1)
         ELSE SubSeq(s, i, j - 1) \o CarriageReturns(s, j)

\* re.sub('^\b+|(?<=[\n])\b+', '', buf) from position i: a run of backspaces
\* at the start of the string or right after a \n is dropped (`drop` says
\* whether position i is in such a place)
RECURSIVE LineStartBackspaces(_, _, _)
LineStartBackspaces(s, i, drop) ==
    IF i > Len(s) THEN <<>>
    ELSE IF s[i] = "b" /\ drop THEN LineStartBackspaces(s, i + 1, TRUE)
    ELSE <<s[i]>> \o LineStartBackspaces(s, i + 1, s[i] = "n")

\* one re.sub('[^\b]\b', '', buf) from position i: left to right, each
\* character other than a backspace that is followed by one goes with it
RECURSIVE BackspacePass(_, _)
BackspacePass(s, i) ==
    IF i > Len(s) THEN <<>>
    ELSE IF s[i] # "b" /\ i + 1 <= Len(s) /\ s[i + 1] = "b" THEN BackspacePass(s, i + 2)
    ELSE <<s[i]>> \o BackspacePass(s, i + 1)

\* while '\b' in buf: buf = re.sub(...); a pass that changes nothing leaves
\* the condition true for ever
RECURSIVE Backspaces(_)
Backspaces(s) ==
    IF \A i \in 1..Len(s) : s[i] # "b" THEN s
    ELSE IF BackspacePass(s, 1) = s THEN Diverges
    ELSE Backspaces(BackspacePass(s, 1))

clean_string(buf) == Backspaces(LineStartBackspaces(CarriageReturns(buf, 1), 1, TRUE))

\* ------------------------------------------------------------ Init
\* no worker, no reader, the real console installed
InitProgram ==
    /\ sys_stdout = "console" /\ sys_stderr = "console" /\ console = <<>>
    /\ fileExists = FALSE /\ content = <<>>
    /\ tproc = "none" /\ st = CREATED /\ wPc = "idle" /\ outcome = "none"
    /\ ctxSet = FALSE /\ tfname = FALSE /\ kwVerbose = TRUE /\ kwDelete = TRUE
    /\ callN = 0 /\ written = <<>> /\ seen = {}
    /\ ctxOn = FALSE /\ ctxFname = FALSE /\ ctxResult = None /\ logOpen = FALSE
    /\ lock = "free"
    /\ ctlPc = "idle" /\ ctlOp = "none" /\ ctlErr = "none"
    /\ pBlock = FALSE /\ pAll = FALSE
    /\ obsPc = "idle" /\ dataSt = CREATED /\ dataRes = Unset
    /\ tout = 0 /\ nReaders = 0 /\ readers = [i \in 1..MaxReaders |-> NoReader]
    /\ stopReq = {} /\ stopped = {}

\* reprint not called
InitShow == hdr = "none" /\ nReprints = 0

\* no method of the session called yet
InitCalls == sStarts = 0 /\ sOp = "none" /\ sErr = "none" /\ sData = Unset /\ sResetAt = -1

\* clean_string not called
InitClean == cIn = <<>> /\ cOut = <<>> /\ cTwice = <<>> /\ cPc = "none"

\* no session object used on its own, clean_string not called
InitAux ==
    /\ InitShow
    /\ sKind = "none" /\ sAttrs = FALSE /\ InitCalls
    /\ InitClean

Init == InitProgram /\ InitAux

\* ------------------------------------------------ ProcessingThread.run
\* with ConsoleCaptureCtx(**kwargs) as ctx: __enter__ -> start(): mkstemp,
\* open the sink over the file, install it as sys.stdout and sys.stderr
WEnter ==
    /\ wPc = "enter"
    /\ fileExists' = TRUE /\ content' = <<>>
    /\ ctxFname' = TRUE /\ logOpen' = TRUE /\ ctxOn' = TRUE /\ ctxResult' = None
    /\ sys_stdout' = "sink" /\ sys_stderr' = "sink"
    /\ wPc' = "record"
    /\ UNCHANGED <<auxVars, console, tproc, st, outcome, ctxSet, tfname, kwVerbose, kwDelete,
                   callN, written, seen, lock, ctlVars, obsVars, outVars>>

\* mkstemp raises: run() raises before the callable, the thread dies
WEnterFail ==
    /\ wPc = "enter"
    /\ outcome' = "nofile"
    /\ wPc' = "dead"
    /\ UNCHANGED <<auxVars, sysVars, fileVars, tproc, st, ctxSet, tfname, kwVerbose,
                   kwDelete, callN, written, seen, ctxVars, lock, ctlVars, obsVars, outVars>>

\* variant: the session is not recorded on the thread object
WRecord_NoCtx ==
    /\ wPc = "record"
    /\ tfname' = TRUE
    /\ wPc' = "setrun"
    /\ UNCHANGED <<auxVars, sysVars, fileVars, tproc, st, outcome, ctxSet, kwVerbose, kwDelete,
                   callN, written, seen, ctxVars, lock, ctlVars, obsVars, outVars>>

\* self.fname = ctx.fname; self._ctx = ctx
WRecord ==
    /\ wPc = "record"
    /\ tfname' = TRUE /\ ctxSet' = TRUE
    /\ wPc' = "setrun"
    /\ UNCHANGED <<auxVars, sysVars, fileVars, tproc, st, outcome, kwVerbose, kwDelete,
                   callN, written, seen, ctxVars, lock, ctlVars, obsVars, outVars>>

\* self._st = ThrStatus.RUNNING
WSetRunning ==
    /\ wPc = "setrun"
    /\ st' = RUNNING /\ seen' = seen \cup {RUNNING}
    /\ wPc' = "call"
    /\ UNCHANGED <<auxVars, sysVars, fileVars, tproc, outcome, ctxSet, tfname, kwVerbose, kwDelete,
                   callN, written, ctxVars, lock, ctlVars, obsVars, outVars>>

\* the callable prints its next line
WWrite ==
    /\ wPc = "call"
    /\ Len(written) < callN
    /\ StdoutWrite("worker", Len(written) + 1)
    /\ written' = Append(written, Len(written) + 1)
    /\ UNCHANGED <<auxVars, sys_stdout, sys_stderr, tproc, st, wPc, outcome, ctxSet, tfname,
                   kwVerbose, kwDelete, callN, seen, ctxVars, lock, ctlVars, obsVars, outVars>>

\* the callable returns: leave the with block
WReturn ==
    /\ wPc = "call"
    /\ Len(written) = callN
    /\ outcome' = "returned"
    /\ wPc' = "exit_acq"
    /\ UNCHANGED <<auxVars, sysVars, fileVars, tproc, st, ctxSet, tfname, kwVerbose,
                   kwDelete, callN, written, seen, ctxVars, lock, ctlVars, obsVars, outVars>>

\* the callable raises an Exception, at any point of its execution
WRaise ==
    /\ wPc = "call"
    /\ outcome' = "raised"
    /\ wPc' = "abort"
    /\ UNCHANGED <<auxVars, sysVars, fileVars, tproc, st, ctxSet, tfname, kwVerbose,
                   kwDelete, callN, written, seen, ctxVars, lock, ctlVars, obsVars, outVars>>

\* variant: the handler re-raises without setting the status
WSetAborted_NoStatus ==
    /\ wPc = "abort"
    /\ wPc' = "exit_acq"
    /\ UNCHANGED <<auxVars, sysVars, fileVars, tproc, st, seen, outcome, ctxSet, tfname, kwVerbose,
                   kwDelete, callN, written, ctxVars, lock, ctlVars, obsVars, outVars>>

\* except Exception: self._st = ThrStatus.ABORTED; raise
WSetAborted ==
    /\ wPc = "abort"
    /\ st' = ABORTED /\ seen' = seen \cup {ABORTED}
    /\ wPc' = "exit_acq"
    /\ UNCHANGED <<auxVars, sysVars, fileVars, tproc, outcome, ctxSet, tfname, kwVerbose, kwDelete,
                   callN, written, ctxVars, lock, ctlVars, obsVars, outVars>>

\* ConsoleCaptureCtx.__exit__: with self._lock
WExitAcquire ==
    /\ wPc = "exit_acq"
    /\ lock = "free"
    /\ lock' = "worker"
    /\ wPc' = "exit_cache"
    /\ UNCHANGED <<auxVars, sysVars, fileVars, tproc, st, outcome, ctxSet, tfname, kwVerbose, kwDelete,
                   callN, written, seen, ctxVars, ctlVars, obsVars, outVars>>

\* self._result = super(ConsoleCaptureCtx,self).data
WExitCache ==
    /\ wPc = "exit_cache"
    /\ ctxResult' = SuperData(ctxFname, fileExists, content)
    /\ wPc' = "exit_rm"
    /\ UNCHANGED <<auxVars, sysVars, fileVars, tproc, st, outcome, ctxSet, tfname, kwVerbose, kwDelete,
                   callN, written, seen, ctxOn, ctxFname, logOpen, lock, ctlVars, obsVars, outVars>>

\* if self._delete: self.remove()   (remove: stop() if _on, unlink if fname)
WExitRemove ==
    /\ wPc = "exit_rm"
    /\ IF kwDelete
       THEN /\ IF ctxOn
               THEN sys_stdout' = "console" /\ sys_stderr' = "console"
                    /\ logOpen' = FALSE /\ ctxOn' = FALSE
               ELSE UNCHANGED <<sys_stdout, sys_stderr, logOpen, ctxOn>>
            /\ IF ctxFname
               THEN fileExists' = FALSE /\ ctxFname' = FALSE
               ELSE UNCHANGED <<fileExists, ctxFname>>
       ELSE UNCHANGED <<sys_stdout, sys_stderr, logOpen, ctxOn, fileExists, ctxFname>>
    /\ wPc' = "exit_rel"
    /\ UNCHANGED <<auxVars, console, content, tproc, st, outcome, ctxSet, tfname, kwVerbose, kwDelete,
                   callN, written, seen, ctxResult, lock, ctlVars, obsVars, outVars>>

\* variant: the exception is swallowed at the end of the with block
WExitRelease_Swallow ==
    /\ wPc = "exit_rel"
    /\ lock' = "free"
    /\ wPc' = "end"
    /\ UNCHANGED <<auxVars, sysVars, fileVars, tproc, st, outcome, ctxSet, tfname, kwVerbose, kwDelete,
                   callN, written, seen, ctxVars, ctlVars, obsVars, outVars>>

\* the lock is released; a raised exception propagates out of run()
WExitRelease ==
    /\ wPc = "exit_rel"
    /\ lock' = "free"
    /\ wPc' = IF outcome = "raised" THEN "term" ELSE "end"
    /\ UNCHANGED <<auxVars, sysVars, fileVars, tproc, st, outcome, ctxSet, tfname, kwVerbose, kwDelete,
                   callN, written, seen, ctxVars, ctlVars, obsVars, outVars>>

\* self._st = ThrStatus.ENDED
WSetEnded ==
    /\ wPc = "end"
    /\ st' = ENDED /\ seen' = seen \cup {ENDED}
    /\ wPc' = "term"
    /\ UNCHANGED <<auxVars, sysVars, fileVars, tproc, outcome, ctxSet, tfname, kwVerbose, kwDelete,
                   callN, written, ctxVars, lock, ctlVars, obsVars, outVars>>

\* run() is over: the thread terminates
WTerminate ==
    /\ wPc = "term"
    /\ wPc' = "dead"
    /\ UNCHANGED <<auxVars, sysVars, fileVars, tproc, st, outcome, ctxSet, tfname, kwVerbose,
                   kwDelete, callN, written, seen, ctxVars, lock, ctlVars, obsVars, outVars>>

Worker ==
    \/ WEnter \/ WEnterFail \/ WRecord \/ WSetRunning \/ WWrite \/ WReturn \/ WRaise
    \/ WSetAborted \/ WExitAcquire \/ WExitCache \/ WExitRemove \/ WExitRelease
    \/ WSetEnded \/ WTerminate

\* ------------------------------------------------ the controlling thread
\* ctlOp is the operation being executed, or the last one executed when
\* ctlPc = "idle"; ctlErr is the exception the last operation raised
Return(err) == ctlPc' = "idle" /\ ctlErr' = err

\* ProcessingThread.__init__
NewThread ==
    /\ st' = CREATED /\ seen' = {CREATED} /\ ctxSet' = FALSE /\ tfname' = FALSE
    /\ outcome' = "none" /\ written' = <<>>

\* ProcessWrap.start: creates the thread, then fails on tproc.verbose(...)
\* before the thread is started
Start ==
    /\ ctlPc = "idle"
    /\ tproc # "started"
    /\ ctlOp' = "start"
    /\ tproc' = "created"
    /\ NewThread
    /\ kwVerbose' = TRUE /\ kwDelete' = TRUE
    /\ Return("AttributeError")
    /\ UNCHANGED <<auxVars, sysVars, fileVars, wPc, callN, ctxVars, lock, pBlock, pAll, obsVars, outVars>>

\* ProcessWrap.process up to tproc.start(), over a callable printing n lines
Process(verbose, delete, block, n) ==
    /\ ctlPc = "idle"
    /\ tproc # "started"
    /\ ctlOp' = "process"
    /\ IF verbose
       THEN StdoutWrite("main", 0)
       ELSE UNCHANGED <<console, fileVars>>
    /\ tproc' = "started"
    /\ NewThread
    /\ kwVerbose' = verbose /\ kwDelete' = delete /\ callN' = n
    /\ wPc' = "enter"
    /\ pBlock' = block
    /\ ctlPc' = "proc_wait" /\ ctlErr' = "none"
    /\ UNCHANGED <<auxVars, sys_stdout, sys_stderr, ctxVars, lock, pAll, obsVars, outVars>>

\* while self.tproc.status == ThrStatus.CREATED: sleep(0.01)
\* if block: self._block()
ProcWaitStart ==
    /\ ctlPc = "proc_wait"
    /\ st # CREATED
    /\ IF pBlock
       THEN ctlPc' = "block_wait" /\ UNCHANGED ctlErr
       ELSE Return("none")
    /\ UNCHANGED <<auxVars, sysVars, fileVars, thrVars, ctxVars, lock, ctlOp, pBlock, pAll, obsVars, outVars>>

\* variant: _block does not wait for the status to leave RUNNING
BlockWait_NoWait ==
    /\ ctlPc = "block_wait"
    /\ ctlPc' = "close_check"
    /\ UNCHANGED <<auxVars, sysVars, fileVars, thrVars, ctxVars, lock, ctlOp, ctlErr, pBlock, pAll,
                   obsVars, outVars>>

\* ProcessWrap._block: while self.tproc.status == ThrStatus.RUNNING: sleep(0.01)
\* then self.tproc.close()
BlockWait ==
    /\ ctlPc = "block_wait"
    /\ st # RUNNING
    /\ ctlPc' = "close_check"
    /\ UNCHANGED <<auxVars, sysVars, fileVars, thrVars, ctxVars, lock, ctlOp, ctlErr, pBlock, pAll,
                   obsVars, outVars>>

\* a direct call of ProcessingThread.close
Close ==
    /\ ctlPc = "idle"
    /\ tproc # "none"
    /\ ctlOp' = "close"
    /\ ctlPc' = "close_check" /\ ctlErr' = "none"
    /\ UNCHANGED <<auxVars, sysVars, fileVars, thrVars, ctxVars, lock, pBlock, pAll, obsVars, outVars>>

\* ProcessingThread.close: if self._st in (ENDED, ABORTED): ...
CloseCheck ==
    /\ ctlPc = "close_check"
    /\ IF st \in {ENDED, ABORTED}
       THEN ctlPc' = "close_join" /\ UNCHANGED ctlErr
       ELSE Return("none")
    /\ UNCHANGED <<auxVars, sysVars, fileVars, thrVars, ctxVars, lock, ctlOp, pBlock, pAll, obsVars, outVars>>

\* variant: close sets REAPED without joining the thread
CloseJoin_NoJoin ==
    /\ ctlPc = "close_join"
    /\ st' = REAPED /\ seen' = seen \cup {REAPED}
    /\ Return("none")
    /\ UNCHANGED <<auxVars, sysVars, fileVars, tproc, wPc, outcome, ctxSet, tfname, kwVerbose, kwDelete,
                   callN, written, ctxVars, lock, ctlOp, pBlock, pAll, obsVars, outVars>>

\* ... self.join(); self._st = ThrStatus.REAPED
CloseJoin ==
    /\ ctlPc = "close_join"
    /\ ~WAlive
    /\ st' = REAPED /\ seen' = seen \cup {REAPED}
    /\ Return("none")
    /\ UNCHANGED <<auxVars, sysVars, fileVars, tproc, wPc, outcome, ctxSet, tfname, kwVerbose, kwDelete,
                   callN, written, ctxVars, lock, ctlOp, pBlock, pAll, obsVars, outVars>>

\* ProcessingThread.reprint: the word for the status in the header
StatusWord(s) ==
    IF s = RUNNING THEN "RUNNING"
    ELSE IF s = ABORTED THEN "ABORTED"
    ELSE IF s \in {ENDED, REAPED} THEN "DONE"
    ELSE "STATUS"

\* ProcessWrap.show: tproc.reprint(chunked=..., clean=clean) returns None while
\* no session is recorded; otherwise it builds the header and passes the
\* keyword clean on to ConsoleCapture.reprint, which does not take it:
\* TypeError before anything is written, and neither close() nor _block() runs
Show(block) ==
    /\ ctlPc = "idle"
    /\ tproc # "none"
    /\ ctlOp' = "show"
    /\ IF ~ctxSet
       THEN /\ hdr' = "none"
            /\ IF block
               THEN ctlPc' = "block_wait" /\ ctlErr' = "none"
               ELSE Return("none")
       ELSE /\ hdr' = StatusWord(st)
            /\ Return("TypeError")
    /\ UNCHANGED <<nReprints, sessVars, cleanVars, sysVars, fileVars, thrVars, ctxVars, lock, pBlock, pAll, obsVars, outVars>>

\* a direct call of ProcessingThread.reprint(chunked=...): nothing while no
\* session is recorded; otherwise ConsoleCapture.reprint writes the header to
\* the real console
Reprint(chunked) ==
    /\ ctlPc = "idle"
    /\ tproc # "none"
    /\ nReprints < MaxReprints
    /\ nReprints' = nReprints + 1
    /\ ctlOp' = IF chunked THEN "reprint_chunked" ELSE "reprint"
    /\ IF ~ctxSet
       THEN /\ hdr' = "none"
            /\ Return("none")
            /\ UNCHANGED console
       ELSE /\ hdr' = StatusWord(st)
            /\ console' = Append(console, <<"hdr", StatusWord(st)>>)
            /\ ctlPc' = "rp_data" /\ ctlErr' = "none"
    /\ UNCHANGED <<sessVars, cleanVars, sys_stdout, sys_stderr, fileVars, thrVars, ctxVars, lock,
                   pBlock, pAll, obsVars, outVars>>

\* ConsoleCapture.reprint: buf = self.data (under the session's lock); one-shot
\* mode then calls clear_output, a name defined nowhere: NameError; chunked
\* mode writes buf in pieces of 256 characters (one piece here: the lines are
\* short), and ProcessingThread.reprint goes on to close()
ReprintData ==
    /\ ctlPc = "rp_data"
    /\ lock = "free"
    /\ LET buf == CtxData(ctxResult, ctxFname, fileExists, content) IN
         IF buf.kind = "error" THEN Return("IOError") /\ UNCHANGED console
         ELSE IF ctlOp = "reprint" THEN Return("NameError") /\ UNCHANGED console
         ELSE IF buf.kind = "none" THEN Return("TypeError") /\ UNCHANGED console
         ELSE /\ console' = IF buf.val # <<>> THEN Append(console, <<"chunk", buf.val>>)
                                              ELSE console
              /\ ctlPc' = "close_check" /\ UNCHANGED ctlErr
    /\ UNCHANGED <<auxVars, sys_stdout, sys_stderr, fileVars, thrVars, ctxVars, lock, ctlOp,
                   pBlock, pAll, obsVars, outVars>>

\* ------------------------------------------------ OutputThread handling
\* variant: async_show starts a new reader without stopping the previous one
AsyncShow_NoStop(all) ==
    /\ ctlPc = "idle"
    /\ nReaders < MaxReaders
    /\ ctlOp' = "async_show"
    /\ pAll' = all
    /\ ctlPc' = "show_new"
    /\ ctlErr' = "none"
    /\ UNCHANGED <<auxVars, sysVars, fileVars, thrVars, ctxVars, lock, pBlock, obsVars, outVars>>

\* ProcessWrap.async_show: if self.tout: self.tout.stop()
AsyncShow(all) ==
    /\ ctlPc = "idle"
    /\ nReaders < MaxReaders
    /\ ctlOp' = "async_show"
    /\ pAll' = all
    /\ ctlPc' = IF tout # 0 THEN "stop_set" ELSE "show_new"
    /\ ctlErr' = "none"
    /\ UNCHANGED <<auxVars, sysVars, fileVars, thrVars, ctxVars, lock, pBlock, obsVars, outVars>>

\* ProcessWrap.async_stop: if self.tout: self.tout.stop()
AsyncStop ==
    /\ ctlPc = "idle"
    /\ ctlOp' = "async_stop"
    /\ IF tout # 0
       THEN ctlPc' = "stop_set" /\ ctlErr' = "none"
       ELSE Return("none")
    /\ UNCHANGED <<auxVars, sysVars, fileVars, thrVars, ctxVars, lock, pBlock, pAll, obsVars, outVars>>

\* OutputThread.stop: with self._lock: self._st = ThrStatus.CLOSING
StopSet ==
    /\ ctlPc = "stop_set"
    /\ readers' = [readers EXCEPT ![tout].st = CLOSING]
    /\ stopReq' = stopReq \cup {tout}
    /\ ctlPc' = "stop_join"
    /\ UNCHANGED <<auxVars, sysVars, fileVars, thrVars, ctxVars, lock, ctlOp, ctlErr, pBlock, pAll,
                   obsVars, tout, nReaders, stopped>>

\* variant: stop returns without joining the reader thread
StopJoin_NoJoin ==
    /\ ctlPc = "stop_join"
    /\ stopped' = stopped \cup {tout}
    /\ IF ctlOp = "async_show"
       THEN ctlPc' = "show_new" /\ UNCHANGED ctlErr
       ELSE Return("none")
    /\ UNCHANGED <<auxVars, sysVars, fileVars, thrVars, ctxVars, lock, ctlOp, pBlock, pAll,
                   obsVars, tout, nReaders, readers, stopReq>>

\* OutputThread.stop: self.join(); then back in async_show or async_stop
StopJoin ==
    /\ ctlPc = "stop_join"
    /\ ~RAlive(tout)
    /\ stopped' = stopped \cup {tout}
    /\ IF ctlOp = "async_show"
       THEN ctlPc' = "show_new" /\ UNCHANGED ctlErr
       ELSE Return("none")
    /\ UNCHANGED <<auxVars, sysVars, fileVars, thrVars, ctxVars, lock, ctlOp, pBlock, pAll,
                   obsVars, tout, nReaders, readers, stopReq>>

\* async_show: self.tout = OutputThread(self.tproc.fname, all, interval)
\*             self.tout.start()
\* there is no attribute tproc, or tproc.fname, before a worker has recorded it
ShowNew ==
    /\ ctlPc = "show_new"
    /\ IF tfname
       THEN /\ nReaders' = nReaders + 1
            /\ tout' = nReaders + 1
            /\ readers' = [readers EXCEPT ![nReaders + 1] =
                              [pc |-> "start", st |-> CREATED, all |-> pAll, pos |-> 0]]
            /\ Return("none")
       ELSE /\ UNCHANGED <<nReaders, tout, readers>>
            /\ Return("AttributeError")
    /\ UNCHANGED <<auxVars, sysVars, fileVars, thrVars, ctxVars, lock, ctlOp, pBlock, pAll,
                   obsVars, stopReq, stopped>>

\* OutputThread.run: with self._lock: self._st = ThrStatus.RUNNING
RSetRunning(i) ==
    /\ readers[i].pc = "start"
    /\ readers' = [readers EXCEPT ![i].st = RUNNING, ![i].pc = "open"]
    /\ UNCHANGED <<auxVars, sysVars, fileVars, thrVars, ctxVars, lock, ctlVars, obsVars,
                   tout, nReaders, stopReq, stopped>>

\* with open(self._fname, 'r') as f: if not self._all: f.seek(0,2)
\* open raises IOError when the file has been removed
ROpen(i) ==
    /\ readers[i].pc = "open"
    /\ readers' = IF fileExists
                  THEN [readers EXCEPT ![i].pc = "loop",
                                       ![i].pos = IF readers[i].all THEN 0 ELSE Len(content)]
                  ELSE [readers EXCEPT ![i].pc = "dead"]
    /\ UNCHANGED <<auxVars, sysVars, fileVars, thrVars, ctxVars, lock, ctlVars, obsVars,
                   tout, nReaders, stopReq, stopped>>

\* while self._on == ThrStatus.RUNNING: an OutputThread has no attribute _on,
\* the test raises AttributeError, the file is closed and the thread dies
RLoop(i) ==
    /\ readers[i].pc = "loop"
    /\ readers' = [readers EXCEPT ![i].pc = "dead", ![i].pos = 0]
    /\ UNCHANGED <<auxVars, sysVars, fileVars, thrVars, ctxVars, lock, ctlVars, obsVars,
                   tout, nReaders, stopReq, stopped>>

Reader == \E i \in 1..MaxReaders : RSetRunning(i) \/ ROpen(i) \/ RLoop(i)

\* ------------------------------------------------ the data property
\* ProcessingThread.data: ... if self._st != ThrStatus.CREATED else None
DataBegin ==
    /\ obsPc = "idle"
    /\ tproc # "none"
    /\ dataSt' = st
    /\ IF st = CREATED
       THEN dataRes' = None /\ UNCHANGED obsPc
       ELSE dataRes' = Unset /\ obsPc' = "acquire"
    /\ UNCHANGED <<auxVars, sysVars, fileVars, thrVars, ctxVars, lock, ctlVars, outVars>>

\* variant: the data property reads without taking the session's lock
DataAcquire_NoLock ==
    /\ obsPc = "acquire"
    /\ IF ctxSet
       THEN obsPc' = "read" /\ UNCHANGED <<dataRes, lock>>
       ELSE dataRes' = Error /\ obsPc' = "idle" /\ UNCHANGED lock
    /\ UNCHANGED <<auxVars, sysVars, fileVars, thrVars, ctxVars, ctlVars, dataSt, outVars>>

\* self._ctx.data: AttributeError on None; ConsoleCaptureCtx.data takes the lock
DataAcquire ==
    /\ obsPc = "acquire"
    /\ IF ctxSet
       THEN lock = "free" /\ lock' = "obs" /\ obsPc' = "read" /\ UNCHANGED dataRes
       ELSE dataRes' = Error /\ obsPc' = "idle" /\ UNCHANGED lock
    /\ UNCHANGED <<auxVars, sysVars, fileVars, thrVars, ctxVars, ctlVars, dataSt, outVars>>

\* leaving `with self._lock:` in the data property
DataRelease == lock' = IF lock = "obs" THEN "free" ELSE lock

\* return self._result if self._result is not None else super().data
DataRead ==
    /\ obsPc = "read"
    /\ IF ctxResult.kind # "none"
       THEN dataRes' = ctxResult /\ DataRelease /\ obsPc' = "idle"
       ELSE obsPc' = "fname" /\ UNCHANGED <<dataRes, lock>>
    /\ UNCHANGED <<auxVars, sysVars, fileVars, thrVars, ctxVars, ctlVars, dataSt, outVars>>

\* ConsoleCapture.data: if self.fname: ...   (else the implicit None)
DataFname ==
    /\ obsPc = "fname"
    /\ IF ctxFname
       THEN obsPc' = "open" /\ UNCHANGED <<dataRes, lock>>
       ELSE dataRes' = None /\ DataRelease /\ obsPc' = "idle"
    /\ UNCHANGED <<auxVars, sysVars, fileVars, thrVars, ctxVars, ctlVars, dataSt, outVars>>

\* ConsoleCapture.data: with open(self.fname,'r') as f: return f.read()
DataOpen ==
    /\ obsPc = "open"
    /\ dataRes' = SuperData(TRUE, ctxFname /\ fileExists, content)
    /\ DataRelease
    /\ obsPc' = "idle"
    /\ UNCHANGED <<auxVars, sysVars, fileVars, thrVars, ctxVars, ctlVars, dataSt, outVars>>

Observer == DataBegin \/ DataAcquire \/ DataRead \/ DataFname \/ DataOpen

\* ------------------------------------------------ a session used on its own
\* One thread calls the methods of a ConsoleCapture, or of a ConsoleCaptureCtx
\* whose scope is not entered, and writes lines 1, 2, ... to sys.stdout.
\* ctxOn, ctxFname, kwVerbose, logOpen are the session's _on, fname, the
\* sink's console flag and whether self.log is open; `written` is the text
\* written since the last start().
sessFrame == <<tproc, st, wPc, outcome, ctxSet, tfname, kwDelete, callN, seen, lock,
               ctlVars, obsVars, outVars, hdr, nReprints, cleanVars, sKind>>

\* what start() has to have done for _on and fname to exist:
\* ConsoleCaptureCtx.__init__ calls super(ConsoleCapture, self).__init__(),
\* which is object.__init__, so ConsoleCapture.__init__ never runs for it
HasAttrs(kind) == kind = "plain"

\* ConsoleCapture.start: mkstemp makes a new empty file (a file of an earlier
\* start is left behind, no longer referred to), the sink is installed
SStart(verbose) ==
    /\ sKind # "none"
    /\ sStarts < MaxStarts
    /\ sStarts' = sStarts + 1
    /\ sOp' = "start" /\ sErr' = "none"
    /\ sAttrs' = TRUE
    /\ fileExists' = TRUE /\ content' = <<>>
    /\ ctxFname' = TRUE /\ logOpen' = TRUE /\ ctxOn' = TRUE
    /\ kwVerbose' = verbose
    /\ sys_stdout' = "sink" /\ sys_stderr' = "sink"
    /\ written' = <<>> /\ sResetAt' = -1
    /\ UNCHANGED <<sessFrame, console, ctxResult, sData>>

\* print(...) by the same thread while the capture is active
SWrite ==
    /\ sKind # "none"
    /\ ctxOn
    /\ Len(written) < MaxChunks
    /\ StdoutWrite("main", Len(written) + 1)
    /\ written' = Append(written, Len(written) + 1)
    /\ UNCHANGED <<sessFrame, sys_stdout, sys_stderr, ctxVars, kwVerbose,
                   sAttrs, sStarts, sOp, sErr, sData, sResetAt>>

\* ConsoleCapture.stop: if self._on: self.log.__exit__(); self._on = False
SStop ==
    /\ sKind # "none"
    /\ sOp' = "stop"
    /\ IF ~sAttrs
       THEN sErr' = "AttributeError"
            /\ UNCHANGED <<sys_stdout, sys_stderr, logOpen, ctxOn>>
       ELSE /\ sErr' = "none"
            /\ IF ctxOn
               THEN sys_stdout' = "console" /\ sys_stderr' = "console"
                    /\ logOpen' = FALSE /\ ctxOn' = FALSE
               ELSE UNCHANGED <<sys_stdout, sys_stderr, logOpen, ctxOn>>
    /\ UNCHANGED <<sessFrame, console, fileVars, ctxFname, ctxResult, kwVerbose, written,
                   sAttrs, sStarts, sData, sResetAt>>

\* ConsoleCapture.reset: if self._on: self.logger.truncate(0)
\* the session has no attribute logger (the sink is self.log): AttributeError,
\* nothing is truncated
SReset ==
    /\ sKind # "none"
    /\ sOp' = "reset"
    /\ IF ~sAttrs
       THEN sErr' = "AttributeError" /\ UNCHANGED sResetAt
       ELSE IF ctxOn
            THEN sErr' = "AttributeError" /\ sResetAt' = Len(written)
            ELSE sErr' = "none" /\ UNCHANGED sResetAt
    /\ UNCHANGED <<sessFrame, sysVars, fileVars, ctxVars, kwVerbose, written,
                   sAttrs, sStarts, sData>>

\* variant: remove forgets the file without unlinking it
SRemove_NoUnlink ==
    /\ sKind # "none"
    /\ sOp' = "remove"
    /\ IF ~sAttrs
       THEN sErr' = "AttributeError"
            /\ UNCHANGED <<sys_stdout, sys_stderr, logOpen, ctxOn, fileExists, ctxFname>>
       ELSE /\ sErr' = "none"
            /\ IF ctxOn
               THEN sys_stdout' = "console" /\ sys_stderr' = "console"
                    /\ logOpen' = FALSE /\ ctxOn' = FALSE
               ELSE UNCHANGED <<sys_stdout, sys_stderr, logOpen, ctxOn>>
            /\ ctxFname' = FALSE /\ UNCHANGED fileExists
    /\ UNCHANGED <<sessFrame, console, content, ctxResult, kwVerbose, written,
                   sAttrs, sStarts, sData, sResetAt>>

\* ConsoleCapture.remove: if self._on: self.stop()
\*                        if self.fname: os.unlink(self.fname); self.fname = None
SRemove ==
    /\ sKind # "none"
    /\ sOp' = "remove"
    /\ IF ~sAttrs
       THEN sErr' = "AttributeError"
            /\ UNCHANGED <<sys_stdout, sys_stderr, logOpen, ctxOn, fileExists, ctxFname>>
       ELSE /\ sErr' = "none"
            /\ IF ctxOn
               THEN sys_stdout' = "console" /\ sys_stderr' = "console"
                    /\ logOpen' = FALSE /\ ctxOn' = FALSE
               ELSE UNCHANGED <<sys_stdout, sys_stderr, logOpen, ctxOn>>
            /\ IF ctxFname
               THEN fileExists' = FALSE /\ ctxFname' = FALSE
               ELSE UNCHANGED <<fileExists, ctxFname>>
    /\ UNCHANGED <<sessFrame, console, content, ctxResult, kwVerbose, written,
                   sAttrs, sStarts, sData, sResetAt>>

\* the data property: ConsoleCapture.data, or ConsoleCaptureCtx.data whose
\* cached copy is None outside a scope; both read self.fname first
SData ==
    /\ sKind # "none"
    /\ sOp' = "data"
    /\ IF ~sAttrs
       THEN sErr' = "AttributeError" /\ sData' = Error
       ELSE /\ sErr' = "none"
            /\ sData' = IF sKind = "ctx"
                        THEN CtxData(ctxResult, ctxFname, fileExists, content)
                        ELSE SuperData(ctxFname, fileExists, content)
    /\ UNCHANGED <<sessFrame, sysVars, fileVars, ctxVars, kwVerbose, written,
                   sAttrs, sStarts, sResetAt>>

Session ==
    \/ \E verbose \in BOOLEAN : SStart(verbose)
    \/ SWrite \/ SStop \/ SReset \/ SRemove \/ SData

\* ------------------------------------------------ calls of clean_string
cleanFrame == <<sysVars, fileVars, thrVars, ctxVars, lock, ctlVars, obsVars, outVars,
                hdr, nReprints, sessVars>>

\* clean_string(cIn)
CleanOnce ==
    /\ cPc = "new"
    /\ cOut' = clean_string(cIn)
    /\ cPc' = IF clean_string(cIn) = Diverges THEN "loops" ELSE "once"
    /\ UNCHANGED <<cleanFrame, cIn, cTwice>>

\* clean_string on the string the first call returned
CleanAgain ==
    /\ cPc = "once"
    /\ cTwice' = clean_string(cOut)
    /\ cPc' = IF clean_string(cOut) = Diverges THEN "loops" ELSE "twice"
    /\ UNCHANGED <<cleanFrame, cIn, cOut>>

Clean == CleanOnce \/ CleanAgain

\* ------------------------------------------------ specifications
TaskCtl ==
    \/ Start
    \/ \E verbose \in BOOLEAN, delete \in BOOLEAN, block \in BOOLEAN, n \in 0..MaxChunks :
          Process(verbose, delete, block, n)
    \/ ProcWaitStart \/ BlockWait \/ Close \/ CloseCheck \/ CloseJoin

TailCtl ==
    \/ \E all \in BOOLEAN : AsyncShow(all)
    \/ AsyncStop \/ StopSet \/ StopJoin \/ ShowNew

\* ProcessWrap.show and ProcessingThread.reprint
ShowCtl ==
    \/ \E block \in BOOLEAN : Show(block)
    \/ \E chunked \in BOOLEAN : Reprint(chunked)
    \/ ReprintData

Controller == TaskCtl \/ TailCtl

Next == Worker \/ Controller \/ ShowCtl \/ Observer \/ Reader \/ Session \/ Clean

\* all the threads together
Spec == Init /\ [][Next]_vars

\* the worker, the controlling thread without its OutputThread calls, and the
\* data queries
TaskNext == Worker \/ TaskCtl \/ Observer

TaskSpec == Init /\ [][TaskNext]_vars

\* the worker and the controlling thread with show and reprint
ShowNext == Worker \/ TaskCtl \/ ShowCtl

ShowSpec == Init /\ [][ShowNext]_vars

\* a ConsoleCapture or a ConsoleCaptureCtx has been constructed, nothing else
SessInit ==
    /\ InitProgram /\ InitShow /\ InitClean
    /\ sKind \in {"plain", "ctx"} /\ sAttrs = HasAttrs(sKind) /\ InitCalls

\* the methods of one session called by one thread
SessSpec == SessInit /\ [][Session]_vars

\* clean_string is about to be called on some string of at most MaxLen characters
CleanInit ==
    /\ InitProgram /\ InitShow
    /\ sKind = "none" /\ sAttrs = FALSE /\ InitCalls
    /\ cIn \in Strings /\ cOut = <<>> /\ cTwice = <<>> /\ cPc = "new"

CleanSpec == CleanInit /\ [][Clean]_vars

\* the worker, the controlling thread and the OutputThreads, without data queries
TailNext == Worker \/ Controller \/ Reader

TailSpec == Init /\ [][TailNext]_vars

\* every started thread keeps being scheduled; the controlling thread finishes
\* the call it is in, but need not make another call
CtlStep == ProcWaitStart \/ BlockWait \/ CloseCheck \/ CloseJoin \/ StopSet \/ StopJoin \/ ShowNew

FairTailSpec == TailSpec /\ WF_vars(Worker) /\ WF_vars(Reader) /\ WF_vars(CtlStep)

\* the worker and the controlling thread's process, start and close calls,
\* each scheduled as long as it has a step to take; the polling loops of
\* process and _block are steps that wait for their condition
ProcNext == Worker \/ TaskCtl

FairProcSpec == Init /\ [][ProcNext]_vars /\ WF_vars(Worker) /\ WF_vars(CtlStep)

\* ------------------------------------------------ properties
Chunks(n) == [k \in 1..n |-> k]
IsPrefix(a, b) == Len(a) <= Len(b) /\ a = SubSeq(b, 1, Len(a))
ProcReturned == tproc = "started" /\ ~(ctlOp = "process" /\ ctlPc # "idle")
ScopeExited == outcome \in {"returned", "raised"} /\ wPc \in {"end", "term", "dead"}
Tailed == SelectSeq(console, LAMBDA e : e[1] = "tail")

\* C1: once the worker has finished running its callable (ENDED, or ABORTED
\* with the thread terminated, or REAPED), sys.stdout and sys.stderr are the
\* original console again, whatever the echo and auto-delete options
C1_RestoredAfterFinish ==
    (tproc = "started" /\ (st = ENDED \/ (st = ABORTED /\ ~WAlive) \/ st = REAPED))
        => (sys_stdout = "console" /\ sys_stderr = "console")

\* C2: a callable that raises takes the status to ABORTED and never to ENDED;
\* a callable that returns takes it to ENDED and never to ABORTED; a close()
\* that joins the finished thread leaves REAPED
C2_OutcomeStatus ==
    /\ [](tproc = "started" =>
            /\ (outcome = "raised" =>
                  (ENDED \notin seen /\ (wPc # "abort" => ABORTED \in seen)))
            /\ (outcome = "returned" =>
                  (ABORTED \notin seen /\ (wPc \in {"term", "dead"} => ENDED \in seen))))
    /\ [][(ctlPc = "close_join" /\ ctlPc' = "idle") => st' = REAPED]_vars

C2_Witness == outcome = "raised" /\ st = REAPED /\ ABORTED \in seen

\* C3: the status only moves CREATED -> RUNNING -> (ENDED | ABORTED) -> REAPED,
\* the move to REAPED is made by close(), and REAPED is never left
C3_Transitions ==
    [][st' # st =>
          /\ <<st, st'>> \in {<<CREATED, RUNNING>>, <<RUNNING, ENDED>>, <<RUNNING, ABORTED>>,
                              <<ENDED, REAPED>>, <<ABORTED, REAPED>>}
          /\ (st' = REAPED => ctlPc = "close_join")]_vars

C3_Witness == seen = {CREATED, RUNNING, ABORTED, REAPED} /\ ctlOp = "close"

\* C4: every text the data property returns is a prefix of the lines the callable
\* prints, and a query made when the status is ENDED, or REAPED after ENDED,
\* returns all of them
C4_DataPrefix ==
    (tproc = "started" /\ dataRes.kind = "text") =>
        /\ IsPrefix(dataRes.val, Chunks(callN))
        /\ ((dataSt = ENDED \/ (dataSt = REAPED /\ ENDED \in seen))
               => dataRes.val = Chunks(callN))

C4_Witness ==
    /\ ProcReturned /\ ~pBlock /\ callN = MaxChunks
    /\ dataSt = ENDED /\ dataRes = Text(Chunks(MaxChunks))

\* C5: with auto-delete, after the scope has exited (callable returned or raised)
\* the file is gone and data is exactly what was written during the scope
C5_DataAfterDelete ==
    (tproc = "started" /\ kwDelete /\ ScopeExited) =>
        /\ ~fileExists
        /\ CtxData(ctxResult, ctxFname, fileExists, content) = Text(written)

C5_Witness == kwDelete /\ ScopeExited /\ outcome = "raised" /\ Len(written) = MaxChunks

\* C6: when process(block=True) has returned, the worker thread has terminated
\* and the status is REAPED
C6_BlockReturnsReaped ==
    (ctlOp = "process" /\ ctlPc = "idle" /\ pBlock) => (st = REAPED /\ wPc = "dead")

C6_Witness == ctlOp = "process" /\ ctlPc = "idle" /\ pBlock /\ outcome = "raised"

\* C7: process() does not return while the status is CREATED; when the status is
\* not CREATED the session and the file name are recorded; data is a text then,
\* never an error, and None only for a query that saw CREATED
C7_DataAfterStart ==
    /\ ProcReturned => st # CREATED
    /\ (tproc = "started" /\ st # CREATED) => (ctxSet /\ tfname)
    /\ dataRes.kind # "error"
    /\ dataRes.kind = "none" => dataSt = CREATED
    /\ (dataSt # CREATED /\ obsPc = "idle") => dataRes.kind = "text"

C7_Witness == dataSt = RUNNING /\ obsPc = "idle" /\ dataRes.kind = "text" /\ wPc = "call"

\* C8: close() in ENDED or ABORTED returns only once the thread has terminated and
\* leaves REAPED; in any other status it returns at once and changes nothing
C8_CloseFrame ==
    /\ [](st = REAPED => wPc = "dead")
    /\ [][/\ (ctlPc = "close_check" /\ ctlPc' # "close_check") =>
                /\ UNCHANGED <<sysVars, fileVars, thrVars, ctxVars, lock, outVars>>
                /\ ctlPc' = IF st \in {ENDED, ABORTED} THEN "close_join" ELSE "idle"
          /\ (ctlPc = "close_join" /\ ctlPc' # "close_join") =>
                /\ st \in {ENDED, ABORTED} /\ wPc = "dead"
                /\ st' = REAPED /\ ctlPc' = "idle"]_vars

C8_Witness == ctlOp = "close" /\ ctlPc = "idle" /\ st = REAPED /\ ENDED \in seen

\* C9: a reader whose stop() has returned has terminated, and nothing of it
\* is on the console
C9_StoppedIsDead ==
    \A i \in stopped : readers[i].pc = "dead" /\ Tailed = <<>>

\* a stop() made before the reader marked itself RUNNING, and a second stop()
C9_Witness ==
    /\ \E i \in stopped : readers[i].st = RUNNING
    /\ ctlPc = "stop_join" /\ tout \in stopped

\* C10: a running reader that nobody has asked to stop writes to the console
\* every line of the file that lies after the position it opened the file at
\* (the start of the file with all=True, its end otherwise)
C10_TailWritesLines ==
    \A i \in 1..MaxReaders : \A k \in 1..MaxChunks :
        (readers[i].pc = "loop" /\ i \notin stopReq /\ readers[i].pos < k /\ k <= Len(content))
            ~> (\/ \E n \in 1..Len(Tailed) : Tailed[n] = <<"tail", content[k]>>
                \/ i \in stopReq)

\* C11: a reader started by async_show(all=True) after process() has returned,
\* whatever the worker's status and auto-delete setting, writes every line the
\* worker has printed to the console, unless it is asked to stop first
C11_AsyncShowStreams ==
    \A i \in 1..MaxReaders : \A k \in 1..MaxChunks :
        (ProcReturned /\ readers[i].pc = "start" /\ readers[i].all
           /\ i \notin stopReq /\ k <= Len(written))
            ~> (\/ \E n \in 1..Len(Tailed) : Tailed[n] = <<"tail", written[k]>>
                \/ i \in stopReq)

\* C12: a reader's status only moves CREATED -> RUNNING -> CLOSING -> ENDED,
\* and once a stop request on a reader has returned its status is ENDED
C12_ReaderTransitions ==
    [][/\ \A i \in 1..MaxReaders :
             readers'[i].st # readers[i].st =>
                 <<readers[i].st, readers'[i].st>> \in
                     {<<CREATED, RUNNING>>, <<RUNNING, CLOSING>>, <<CLOSING, ENDED>>}
       /\ \A i \in stopped' : readers'[i].st = ENDED]_vars

\* C13: at most one reader thread is alive at any time; when async_show is
\* about to create its reader the previous one has terminated; and when
\* async_stop has returned no reader is alive
C13_OneReader ==
    /\ Cardinality({i \in 1..MaxReaders : RAlive(i)}) <= 1
    /\ (ctlPc = "show_new" /\ tout # 0) => ~RAlive(tout)
    /\ (ctlOp = "async_stop" /\ ctlPc = "idle") => \A i \in 1..MaxReaders : ~RAlive(i)

\* a second reader is alive after the first was stopped while still starting
C13_Witness ==
    /\ nReaders = 2 /\ RAlive(2)
    /\ 1 \in stopped /\ readers[1].st = RUNNING

\* C14: show() or reprint() called when the worker's status is ENDED or ABORTED
\* (header DONE or ABORTED) returns without error in either mode, with the
\* header and all the captured content on the console and the worker REAPED
C14_ShowCompletes ==
    (ctlOp \in {"show", "reprint", "reprint_chunked"} /\ ctlPc = "idle"
        /\ hdr \in {"DONE", "ABORTED"}) =>
        /\ ctlErr = "none"
        /\ st = REAPED
        /\ \E n \in 1..Len(console) : console[n] = <<"hdr", hdr>>
        /\ written # <<>> => \E n \in 1..Len(console) : console[n] = <<"chunk", written>>

\* C20: a data query that returns once the callable has finished, i.e. while the
\* scope exit is pending, in progress or done, returns all the captured text:
\* never None, never an error, never a part
C20_DataAtExit ==
    [][(obsPc # "idle" /\ obsPc' = "idle" /\ ctxSet /\ outcome \in {"returned", "raised"})
          => dataRes' = Text(written)]_vars

\* a query that saw RUNNING has returned the full text while the worker, with
\* auto-delete, stands at the entry of the scope exit
C20_Witness ==
    /\ obsPc = "idle" /\ dataSt = RUNNING /\ dataRes = Text(written) /\ written # <<>>
    /\ kwDelete /\ outcome = "returned" /\ wPc = "exit_acq"

\* a session used on its own: started and then stopped, not removed; and removed
SessStopped == sKind # "none" /\ sStarts > 0 /\ ~ctxOn /\ ctxFname
SessRemoved == sKind # "none" /\ sStarts > 0 /\ ~ctxFname

\* C15: after start(), writes and stop() (no reset), the file exists, data is
\* exactly the text written and stdout/stderr are the console again; after
\* remove() the file is gone, fname is cleared and data is None; a stop() on a
\* stopped session and a remove() on a removed one change nothing
C15_StartStopRemove ==
    /\ []((SessStopped /\ sResetAt = -1) =>
             /\ fileExists
             /\ SuperData(ctxFname, fileExists, content) = Text(written)
             /\ sys_stdout = "console" /\ sys_stderr = "console"
             /\ (sOp = "data" => sErr = "none" /\ sData = Text(written)))
    /\ [](SessRemoved =>
             /\ ~fileExists /\ ~ctxOn
             /\ sys_stdout = "console" /\ sys_stderr = "console"
             /\ (sOp = "data" => sErr = "none" /\ sData = None))
    /\ [][((SStop /\ (SessStopped \/ SessRemoved)) \/ (SRemove /\ SessRemoved))
             => (sErr' = "none"
                 /\ UNCHANGED <<sysVars, fileVars, ctxVars, written, sData>>)]_vars

\* data has been read after start(), MaxChunks writes and stop()
C15_Witness ==
    /\ SessStopped /\ sResetAt = -1 /\ sOp = "data"
    /\ Len(written) = MaxChunks /\ sData = Text(written)

\* C16: on a session never started, stop(), reset() and remove() raise nothing
\* and change nothing, and data is None without an error
C16_NeverStarted ==
    (sKind # "none" /\ sStarts = 0 /\ sOp # "none") =>
        /\ sErr = "none"
        /\ sOp = "data" => sData = None
        /\ ~ctxOn /\ ~ctxFname /\ ~fileExists
        /\ sys_stdout = "console" /\ sys_stderr = "console"

\* C17: after writes, reset() on an active session and more writes, with no stop:
\* reset() raised nothing, the sink is still installed, and data is exactly
\* the text written after the reset
C17_ResetKeepsCapturing ==
    (sKind # "none" /\ ctxOn /\ sResetAt >= 0) =>
        /\ sOp = "reset" => sErr = "none"
        /\ sys_stdout = "sink" /\ sys_stderr = "sink"
        /\ SuperData(ctxFname, fileExists, content)
              = Text(SubSeq(written, sResetAt + 1, Len(written)))

\* C18: whenever clean_string returns, applying it to its result gives the
\* same string again
C18_CleanIdempotent == cPc = "twice" => cTwice = cOut

\* a string without \r and \b
Plain(s) == \A i \in 1..Len(s) : s[i] \in {"a", "n"}

\* C19: clean_string returns a string without carriage return and backspace
\* unchanged
C19_CleanPlainIdentity ==
    (cPc \in {"once", "twice"} /\ Plain(cIn)) => cOut = cIn

\* a plain text of two lines went through clean_string
C19_Witness ==
    /\ cPc = "once" /\ Plain(cIn) /\ Len(cIn) >= 3
    /\ cIn[1] = "a" /\ cIn[2] = "n" /\ cIn[3] = "a" /\ cOut = cIn

\* C21: under fair scheduling a stop request on a started reader, whenever it
\* is made, is observed by the reader, which leaves its loop and becomes ENDED,
\* and the stop() call returns
C21_StopObserved ==
    \A i \in 1..MaxReaders :
        (i \in stopReq) ~> (i \in stopped /\ ~RAlive(i) /\ readers[i].st = ENDED)

\* C22: under fair scheduling every call of process() returns, whether the
\* callable returns, raises, or the capture session cannot be opened
C22_ProcessReturns ==
    (ctlOp = "process" /\ ctlPc # "idle") ~> (ctlOp = "process" /\ ctlPc = "idle")

\* C23: every call of clean_string returns, and the string it returns holds
\* no backspace
C23_CleanTerminates ==
    cPc # "new" =>
        /\ cPc # "loops"
        /\ cOut # Diverges
        /\ \A i \in 1..Len(cOut) : cOut[i] # "b"
====
